---------------------------- MODULE Spec2Model ----------------------------
(***************************************************************************)
(* Model of the intent-routing and tool-dispatch pipeline of S1-Base-API:  *)
(* the handler create_chat_completion (src/api/main.py), the Tool Registry *)
(* (src/api/solution/__init__.py) and the six backend adapters             *)
(* (src/api/solution/*.py).                                                *)
(*                                                                         *)
(* Texts (message contents, classifier replies) are sequences of tokens,   *)
(* so that str.replace, ''.join and json.loads are computed, not assumed.  *)
(***************************************************************************)
EXTENDS Integers, Sequences, FiniteSets, TLC

(***************************************************************************)
(* Bounds of the model.                                                    *)
(***************************************************************************)
\* number of request slots; Spec uses slot 1 only
NumRequests == 2
\* the agent graph's recursion limit (25 in langgraph), scaled down
MaxSteps == 5
\* largest number of tool calls the agent model asks for in one request
MaxToolCalls == 3
\* the same, where two requests are served
MaxServingToolCalls == 2
\* number of /generate requests the MatterGen service gets
MaxGenerate == 2
\* number of times the clock is advanced
MaxTicks == 4

Requests == 1..NumRequests

(***************************************************************************)
(* Sequence helpers.                                                       *)
(***************************************************************************)
RECURSIVE SeqsUpTo(_, _)
SeqsUpTo(S, n) ==
  IF n = 0 THEN {<<>>}
  ELSE LET shorter == SeqsUpTo(S, n - 1)
       IN  shorter \cup {Append(s, x) : s \in {t \in shorter : Len(t) = n - 1}, x \in S}

IsPrefix(p, s) == Len(p) <= Len(s) /\ SubSeq(s, 1, Len(p)) = p

Drop(s, n) == SubSeq(s, n + 1, Len(s))

RECURSIVE Concat(_)
\* ''.join(list_of_texts)
Concat(ss) == IF ss = <<>> THEN <<>> ELSE Head(ss) \o Concat(Tail(ss))

(***************************************************************************)
(* src/api/main.py: the allow-list and the wire types.                     *)
(***************************************************************************)
AVAILABLE_MODELS == {"S1-Base"}

\* model ids a caller may send
ModelIds == {"S1-Base", "gpt-4"}

Roles == {"system", "user", "assistant"}

Message(role, content) == [role |-> role, content |-> content]

\* conversations a caller may send (request.messages)
Conversations ==
  { << Message("user", <<"fold this sequence: MKV...">>) >>,
    << Message("system", <<"sys">>), Message("user", <<"q1">>),
       Message("assistant", <<"a0">>), Message("user", <<"q2">>) >> }

(***************************************************************************)
(* prompt.instruction_template: a fixed text with one {user_query} slot.   *)
(***************************************************************************)
instruction_template(user_query) == <<"TEMPLATE_HEAD">> \o user_query \o <<"TEMPLATE_TAIL">>

\* variant: the template is applied to every message, whatever its role
RouteInputAllTemplated(messages) ==
  [i \in 1..Len(messages) |->
     Message(messages[i].role, instruction_template(messages[i].content))]

\* src/api/main.py:84-90
RouteInput(messages) ==
  [i \in 1..Len(messages) |->
     IF messages[i].role = "user"
     THEN Message(messages[i].role, instruction_template(messages[i].content))
     ELSE Message(messages[i].role, messages[i].content)]

(***************************************************************************)
(* The classifier's reply: a text over these tokens.                       *)
(*   "<think>" "</think>" "\n"   the reasoning-trace delimiters, newline   *)
(*   "prose"                     text that is not JSON                     *)
(*   "[1]"                       a JSON document that is not an object     *)
(*   "{}"                        a JSON object without an intent field     *)
(*   "{intent:null}"             a JSON object whose intent is null        *)
(*   "{intent:[..]}"             a JSON object whose intent is a list      *)
(*   "{intent:L}"                a JSON object whose intent is label L     *)
(***************************************************************************)
Tok(t, v) == [t |-> t, v |-> v]

NL == Tok("\n", "")
ThinkOpen == Tok("<think>", "")
ThinkClose == Tok("</think>", "")
Prose == Tok("prose", "")
JsonArray == Tok("[1]", "")
JsonEmptyObject == Tok("{}", "")
JsonIntentNull == Tok("{intent:null}", "")
JsonIntentList == Tok("{intent:[..]}", "")
JsonIntent(label) == Tok("{intent:L}", label)

JsonDocTokens == {"[1]", "{}", "{intent:null}", "{intent:[..]}", "{intent:L}"}

\* the literal '<think>\n\n</think>\n\n' of src/api/main.py:93
EmptyThinkLiteral == <<ThinkOpen, NL, NL, ThinkClose, NL, NL>>

RECURSIVE ReplaceAnyTrace(_, _)
\* variant: a reasoning trace is removed whatever is inside it
ReplaceAnyTrace(s, old) ==
  IF s = <<>> THEN <<>>
  ELSE IF Head(s) = ThinkOpen /\ \E i \in 1..Len(s) : s[i] = ThinkClose
  THEN LET close == CHOOSE i \in 1..Len(s) :
                      s[i] = ThinkClose /\ \A j \in 1..(i - 1) : s[j] # ThinkClose
       IN  ReplaceAnyTrace(Drop(s, close), old)
  ELSE <<Head(s)>> \o ReplaceAnyTrace(Tail(s), old)

RECURSIVE LStrip(_)
LStrip(s) == IF s # <<>> /\ Head(s) = NL THEN LStrip(Tail(s)) ELSE s

RECURSIVE RStrip(_)
RStrip(s) == IF s # <<>> /\ s[Len(s)] = NL THEN RStrip(SubSeq(s, 1, Len(s) - 1)) ELSE s

\* variant: a reply that does not parse is taken for a decision anyway
JsonParsesLenient(content) == content # <<>>

\* json.loads accepts one JSON document surrounded by optional whitespace
JsonParses(content) ==
  LET body == RStrip(LStrip(content))
  IN  Len(body) = 1 /\ body[1].t \in JsonDocTokens

\* the value json.loads returns, when JsonParses(content)
JsonLoads(content) == RStrip(LStrip(content))[1]

RECURSIVE Replace(_, _)
\* str.replace(old, ''): every non-overlapping occurrence of old, left to right
Replace(s, old) ==
  IF s = <<>> THEN <<>>
  ELSE IF IsPrefix(old, s) THEN Replace(Drop(s, Len(old)), old)
  ELSE <<Head(s)>> \o Replace(Tail(s), old)

(***************************************************************************)
(* config.ExpertModel: the intent labels.                                  *)
(***************************************************************************)
ExpertModel ==
  [DEFAULT |-> "default", ESM3 |-> "ESM3", EVO2 |-> "EVO2", AlphaFold2 |-> "AlphaFold2",
   MatterGen |-> "MatterGen", SPECTRUM |-> "SPECTRUM", FIELD |-> "FIELD"]

ExpertModelLabels == {ExpertModel[k] : k \in DOMAIN ExpertModel}

\* intent labels a classifier may answer with: the registry's and one that is not registered
IntentLabels == ExpertModelLabels \cup {"unknown_tool_xyz"}

(***************************************************************************)
(* src/api/solution/__init__.py: the Tool Registry.  A tool is named by    *)
(* the adapter function it wraps; None is the no-tool sentinel.            *)
(***************************************************************************)
None == "None"

Adapters ==
  {"predict_protein_structure", "execute", "dna_generate",
   "mechanics_calculate", "matter_gen_function", "spectrum_predict"}

\* variant: two entries of the registry are exchanged
tool_map_swapped ==
  [label \in ExpertModelLabels |->
     CASE label = ExpertModel.DEFAULT    -> None
       [] label = ExpertModel.ESM3       -> "predict_protein_structure"
       [] label = ExpertModel.EVO2       -> "dna_generate"
       [] label = ExpertModel.AlphaFold2 -> "execute"
       [] label = ExpertModel.MatterGen  -> "matter_gen_function"
       [] label = ExpertModel.SPECTRUM   -> "spectrum_predict"
       [] label = ExpertModel.FIELD      -> "mechanics_calculate"]

tool_map ==
  [label \in ExpertModelLabels |->
     CASE label = ExpertModel.DEFAULT    -> None
       [] label = ExpertModel.ESM3       -> "execute"
       [] label = ExpertModel.EVO2       -> "dna_generate"
       [] label = ExpertModel.AlphaFold2 -> "predict_protein_structure"
       [] label = ExpertModel.MatterGen  -> "matter_gen_function"
       [] label = ExpertModel.SPECTRUM   -> "spectrum_predict"
       [] label = ExpertModel.FIELD      -> "mechanics_calculate"]

\* the process-wide dict object that src/api/solution/__init__.py:9-19 builds at import
VARIABLE registry

\* variant: the lookup removes the entry it finds (dict.pop instead of dict.get)
RegistryAfterPop(reg, intent) ==
  IF intent.type = "str" /\ intent.v \in DOMAIN reg
  THEN [label \in DOMAIN reg \ {intent.v} |-> reg[label]]
  ELSE reg

\* what tool_map.get(key) leaves of the dict
RegistryAfterLookup(reg, intent) == reg

\* route.get('intent'): the value under the key, None when the key is missing
RouteGetIntent(route) ==
  CASE route.t = "{intent:L}"    -> [type |-> "str",  v |-> route.v]
    [] route.t = "{intent:[..]}" -> [type |-> "list", v |-> ""]
    [] OTHER                     -> [type |-> "None", v |-> ""]

\* dict.get on a value that is not a dict raises AttributeError
RouteIsDict(route) == route.t # "[1]"

\* variant: only a string is taken for a key
IntentHashableStrOnly(intent) == intent.type = "str"

\* a list is unhashable: tool_map.get(list) raises TypeError
IntentHashable(intent) == intent.type # "list"

\* tool_map.get(key): None when the key is absent
ToolMapGet(intent) ==
  IF intent.type = "str" /\ intent.v \in DOMAIN registry THEN registry[intent.v] ELSE None

\* variant: every tool of the registry is bound
BindToolsEvery(intent) == <<"predict_protein_structure", "execute">>

\* variant: the registry's answer is bound without the test for None
BindToolsUnfiltered(intent) == <<ToolMapGet(intent)>>

\* src/api/main.py:109
BindTools(intent) ==
  IF ToolMapGet(intent) # None THEN <<ToolMapGet(intent)>> ELSE <<>>

(***************************************************************************)
(* The backend adapters.  The network call of an adapter ends in one of    *)
(* these outcomes; "timeout" needs a timeout to be set on the call.        *)
(***************************************************************************)
NetOutcomes == {"ok", "conn_error", "http_error", "bad_body", "timeout"}

\* seconds given to the adapter's call of its service; 0 stands for no timeout argument
TimeoutOf(adapter) ==
  CASE adapter = "predict_protein_structure" -> 300
    [] adapter = "execute"                   -> 300
    [] adapter = "dna_generate"              -> 0
    [] adapter = "mechanics_calculate"       -> 6000
    [] adapter = "matter_gen_function"       -> 0
    [] adapter = "spectrum_predict"          -> 0

HasTimeout(adapter) == TimeoutOf(adapter) > 0

Return(value) == [kind |-> "return", value |-> value]
Raise(exc) == [kind |-> "raise", value |-> exc]

\* variant: the request is made outside the try block
predict_protein_structure_unguarded(outcome) ==
  IF outcome = "ok" THEN Return("payload") ELSE Raise("RequestException")

\* src/api/solution/alphaFold2.py:50-62
predict_protein_structure(outcome) ==
  IF outcome = "ok" THEN Return("payload") ELSE Return("None")

\* src/api/solution/esm3.py:39-50
execute(outcome) ==
  IF outcome = "ok" THEN Return("payload") ELSE Return("None")

\* src/api/solution/evo2.py:66-83
dna_generate(outcome) ==
  IF outcome = "ok" THEN Return("payload") ELSE Raise("ValueError")

\* variant: the handlers re-raise instead of returning the error mapping
mechanics_calculate_reraising(outcome) ==
  IF outcome = "ok" THEN Return("payload") ELSE Raise("RuntimeError")

\* src/api/solution/field.py:114-139
mechanics_calculate(outcome) ==
  IF outcome = "ok" THEN Return("payload") ELSE Return("error_dict")

\* src/api/solution/matterGen.py:33-51
matter_gen_function(outcome) ==
  IF outcome = "ok" THEN Return("payload") ELSE Return("error_dict")

\* src/api/solution/spectrum.py:47-66
spectrum_predict(outcome) ==
  IF outcome = "ok" THEN Return("payload") ELSE Return("error_dict")

\* the result of calling the adapter function, given what its network call did
CallAdapter(adapter, outcome) ==
  CASE adapter = "predict_protein_structure" -> predict_protein_structure(outcome)
    [] adapter = "execute"                   -> execute(outcome)
    [] adapter = "dna_generate"              -> dna_generate(outcome)
    [] adapter = "mechanics_calculate"       -> mechanics_calculate(outcome)
    [] adapter = "matter_gen_function"       -> matter_gen_function(outcome)
    [] adapter = "spectrum_predict"          -> spectrum_predict(outcome)


(***************************************************************************)
(* Messages of the agent graph (langchain message objects).                *)
(***************************************************************************)
Usage(p, c, t) == [prompt_tokens |-> p, completion_tokens |-> c, total_tokens |-> t]

ZeroUsage == Usage(0, 0, 0)

GraphMessage(type, content, usage, tool_calls, status) ==
  [type |-> type, content |-> content, usage |-> usage, tool_calls |-> tool_calls, status |-> status]

\* a role/content pair of agent_input as the graph stores it
FromRole(msg) ==
  GraphMessage(CASE msg.role = "user"      -> "human"
                 [] msg.role = "system"    -> "system"
                 [] msg.role = "assistant" -> "ai",
               msg.content, ZeroUsage, <<>>, "")

\* variant: the agent is given the messages that were built for the route classifier
AgentInputTemplated(messages) ==
  [i \in 1..Len(messages) |->
     FromRole(IF messages[i].role = "user"
              THEN Message("user", instruction_template(messages[i].content))
              ELSE messages[i])]

\* src/api/main.py:111
AgentInput(messages) == [i \in 1..Len(messages) |-> FromRole(messages[i])]

\* what a reply of the agent model may carry besides its tool calls
AIVariants ==
  { [content |-> <<>>,    usage |-> ZeroUsage],
    [content |-> <<"a">>, usage |-> Usage(2, 1, 3)] }

\* the argument set of a tool call, as far as the schemas look at it: the length of
\* its sequence, its num_steps or num_tokens, and whether every required field is
\* there with a value of the declared type
ToolArgs(sequence_len, num, complete) ==
  [sequence_len |-> sequence_len, num |-> num, complete |-> complete]

\* src/api/solution/esm3.py:10
MAX_STEPS == 50

\* variant: the declared bounds are not enforced
SchemaAcceptsUnbounded(adapter, args) == args.complete

\* the args_schema of the adapter's tool accepts the argument set
SchemaAccepts(adapter, args) ==
  CASE adapter = "execute" ->
         /\ args.complete
         /\ args.sequence_len >= 1 /\ args.sequence_len <= 300
         /\ args.num >= 1 /\ args.num <= MAX_STEPS
    [] adapter = "dna_generate" ->
         /\ args.complete
         /\ args.sequence_len >= 1 /\ args.sequence_len <= 500
         /\ args.num >= 1 /\ args.num <= 300
    [] OTHER -> args.complete

\* argument sets the agent model may produce for a tool: at the edge of what its
\* schema declares, and past it
ArgChoices(adapter) ==
  CASE adapter = "execute"      -> {ToolArgs(300, 15, TRUE), ToolArgs(301, 15, TRUE)}
    [] adapter = "dna_generate" -> {ToolArgs(301, 300, TRUE), ToolArgs(301, 301, TRUE)}
    [] OTHER                    -> {ToolArgs(20, 1, TRUE), ToolArgs(20, 1, FALSE)}

ToolCall(name, args) == [name |-> name, args |-> args]

\* a registered adapter that is not among these tools
UnboundAdapter(tools) ==
  IF \E i \in 1..Len(tools) : tools[i] = "execute" THEN "dna_generate" ELSE "execute"

\* the tool calls the agent model may ask for when these tools are bound:
\* a bound tool with arguments that fit its schema or not, or a tool that is not bound
ToolCallChoices(tools) ==
  UNION {{ToolCall(tools[i], a) : a \in ArgChoices(tools[i])} : i \in 1..Len(tools)}
    \cup {ToolCall(UnboundAdapter(tools), ToolArgs(20, 15, TRUE))}

\* the tool calls asked for by the replies in a message list
RECURSIVE ToolCallsRequested(_)
ToolCallsRequested(msgs) ==
  IF msgs = <<>> THEN 0 ELSE Len(Head(msgs).tool_calls) + ToolCallsRequested(Tail(msgs))

SorryContent == <<"Sorry, need more steps to process this request.">>

\* the agent node's test for the step bound
AreMoreStepsNeeded(stepNo, tool_calls) == MaxSteps - stepNo < 2 /\ tool_calls # <<>>

(***************************************************************************)
(* The tool node: one entry per tool call of the last reply.               *)
(***************************************************************************)
NoResult == [kind |-> "", value |-> ""]

CallEntry(name, state, result) == [name |-> name, state |-> state, result |-> result]

\* variant: the tool's name is resolved against the whole registry
StartCallAnyAdapter(tools, tc) ==
  IF ~SchemaAccepts(tc.name, tc.args)
  THEN CallEntry(tc.name, "invalid_args", NoResult)
  ELSE CallEntry(tc.name, "inflight", NoResult)

\* what the tool node does with one tool call before any network traffic
StartCall(tools, tc) ==
  IF \A i \in 1..Len(tools) : tools[i] # tc.name
  THEN CallEntry(tc.name, "invalid_name", NoResult)
  ELSE IF ~SchemaAccepts(tc.name, tc.args)
  THEN CallEntry(tc.name, "invalid_args", NoResult)
  ELSE CallEntry(tc.name, "inflight", NoResult)

StartCalls(tools, tool_calls) == [i \in 1..Len(tool_calls) |-> StartCall(tools, tool_calls[i])]

InFlight(cs) == {i \in 1..Len(cs) : cs[i].state = "inflight"}

Hung(cs) == {i \in 1..Len(cs) : cs[i].state = "hung"}

RECURSIVE InvokedByTwice(_)
\* variant: every call is issued a second time
InvokedByTwice(cs) ==
  IF cs = <<>> THEN <<>>
  ELSE (IF Head(cs).state = "inflight" THEN <<Head(cs).name, Head(cs).name>> ELSE <<>>)
         \o InvokedByTwice(Tail(cs))

RECURSIVE InvokedBy(_)

\* the adapters a list of started calls has invoked, in order
InvokedBy(cs) ==
  IF cs = <<>> THEN <<>>
  ELSE (IF Head(cs).state = "inflight" THEN <<Head(cs).name>> ELSE <<>>) \o InvokedBy(Tail(cs))

\* variant: the tool node hands over as soon as one call has ended
RoundOverAtFirstReturn(cs) == \E i \in 1..Len(cs) : cs[i].state = "returned"

\* the tool node has the results of all the calls of the reply
RoundOver(cs) == InFlight(cs) = {} /\ Hung(cs) = {}

Raised(entry) == entry.state = "returned" /\ entry.result.kind = "raise"

\* an exception of the adapter function that the tool node lets through
Unhandled(handleAll, entry) == Raised(entry) /\ handleAll = "no"

\* the observation the tool node appends for a finished tool call
Observation(entry) ==
  CASE entry.state = "invalid_name" ->
         GraphMessage("tool", <<"Error: not a valid tool">>, ZeroUsage, <<>>, "error")
    [] entry.state = "invalid_args" ->
         GraphMessage("tool", <<"Error: ValidationError">>, ZeroUsage, <<>>, "error")
    [] entry.state = "returned" /\ entry.result.kind = "raise" ->
         GraphMessage("tool", <<"Error: ", entry.result.value>>, ZeroUsage, <<>>, "error")
    [] OTHER ->
         GraphMessage("tool", <<entry.result.value>>, ZeroUsage, <<>>, "success")

Observations(cs) == [i \in 1..Len(cs) |-> Observation(cs[i])]

(***************************************************************************)
(* src/api/main.py:113-139: the Response Aggregator.                       *)
(***************************************************************************)
RECURSIVE ResultContentEveryMessage(_)
\* variant: the test for AIMessage is missing
ResultContentEveryMessage(msgs) ==
  IF msgs = <<>> THEN <<>>
  ELSE <<Head(msgs).content>> \o ResultContentEveryMessage(Tail(msgs))

RECURSIVE ResultContent(_)
ResultContent(msgs) ==
  IF msgs = <<>> THEN <<>>
  ELSE (IF Head(msgs).type = "ai" THEN <<Head(msgs).content>> ELSE <<>>) \o ResultContent(Tail(msgs))

RECURSIVE TokenUsageOverwriting(_)
\* variant: the counters are assigned (=) instead of added to (+=)
TokenUsageOverwriting(msgs) ==
  IF msgs = <<>> THEN ZeroUsage
  ELSE LET m == msgs[Len(msgs)]
       IN  IF m.type # "ai" THEN TokenUsageOverwriting(SubSeq(msgs, 1, Len(msgs) - 1))
           ELSE m.usage

RECURSIVE TokenUsageSubtracting(_)
\* variant: the counters are subtracted from (-=)
TokenUsageSubtracting(msgs) ==
  IF msgs = <<>> THEN ZeroUsage
  ELSE LET rest == TokenUsageSubtracting(Tail(msgs))
           m    == Head(msgs)
       IN  IF m.type # "ai" THEN rest
           ELSE Usage(rest.prompt_tokens - m.usage.prompt_tokens,
                      rest.completion_tokens - m.usage.completion_tokens,
                      rest.total_tokens - m.usage.total_tokens)

RECURSIVE TokenUsage(_)
TokenUsage(msgs) ==
  IF msgs = <<>> THEN ZeroUsage
  ELSE LET rest == TokenUsage(Tail(msgs))
           m    == Head(msgs)
       IN  IF m.type # "ai" THEN rest
           ELSE Usage(m.usage.prompt_tokens + rest.prompt_tokens,
                      m.usage.completion_tokens + rest.completion_tokens,
                      m.usage.total_tokens + rest.total_tokens)

Choice(index, message, finish_reason) ==
  [index |-> index, message |-> message, finish_reason |-> finish_reason]

Envelope(status, error, object, model, choices, usage) ==
  [status |-> status, error |-> error, object |-> object, model |-> model,
   choices |-> choices, usage |-> usage]

NoResponse == Envelope(0, "", "", "", <<>>, ZeroUsage)

\* an HTTPException or an exception that leaves the handler
ErrorResponse(status, error) == Envelope(status, error, "", "", <<>>, ZeroUsage)

\* variant: one choice for each reply of the loop
ChatCompletionResponsePerReply(model, msgs) ==
  Envelope(200, "", "chat.completion", model,
           [i \in 1..Len(ResultContent(msgs)) |->
              Choice(i - 1, Message("assistant", ResultContent(msgs)[i]), "stop")],
           TokenUsage(msgs))

ChatCompletionResponse(model, msgs) ==
  Envelope(200, "", "chat.completion", model,
           << Choice(0, Message("assistant", Concat(ResultContent(msgs))), "stop") >>,
           TokenUsage(msgs))


(***************************************************************************)
(* Replies the route classifier may give (route_response.content).         *)
(***************************************************************************)
ClassifierReplies ==
  {<<JsonIntent(l)>> : l \in IntentLabels}
    \cup { <<JsonEmptyObject>>, <<JsonIntentNull>>, <<JsonIntentList>>, <<JsonArray>>,
           <<Prose>>, <<>>,
           <<JsonIntent("default"), NL>>,
           <<Prose, JsonIntent("ESM3")>>,
           EmptyThinkLiteral \o <<JsonIntent("ESM3")>>,
           EmptyThinkLiteral \o <<JsonIntent("unknown_tool_xyz")>>,
           EmptyThinkLiteral \o <<Prose>>,
           <<ThinkOpen, ThinkClose, NL, NL, JsonIntent("ESM3")>>,
           <<ThinkOpen, NL, ThinkClose, NL, JsonIntent("ESM3")>>,
           <<ThinkOpen, NL, Prose, NL, ThinkClose, NL, NL, JsonIntent("ESM3")>> }

(***************************************************************************)
(* State.                                                                  *)
(***************************************************************************)
VARIABLES
  handleAllToolErrors, \* does the installed tool node turn every exception of a tool function
                       \* into an observation ("yes"), or re-raise it ("no"); "unseen" until
                       \* the first exception reaches the tool node
  running,             \* the request whose handler occupies the event loop, 0 when none
  pc,                  \* where each request's handler is
  request,             \* the ChatCompletionRequest
  route_input,         \* the messages sent to the route classifier
  route_reply,         \* route_response.content
  route,               \* the parsed route decision
  tools,               \* the tools bound to the agent
  messages,            \* the agent graph's message list
  calls,               \* the tool node's calls for the last reply
  step,                \* the graph step of the current node
  response,            \* what the caller gets
  classifierCalls,     \* calls of the route model made for the request
  agentCalls,          \* calls of the agent model made for the request
  adapterCalls,        \* the adapter functions invoked for the request, in order
  \* src/services/mattergen/api/main.py, the MatterGen service:
  request_status,      \* the process-wide status table, by request id
  mgPc,                \* where the handler of each /generate request is
  results_dir,         \* the temporary results directory of each /generate request
  background_tasks,    \* the /generate requests whose cleanup task has been added
  mgResponse,          \* the status code returned for each /generate request, 0 before
  clock                \* time.time(), in seconds

vars ==
  <<handleAllToolErrors, running, pc, request, route_input, route_reply, route, tools,
    messages, calls, step, response, classifierCalls, agentCalls, adapterCalls, registry,
    request_status, mgPc, results_dir, background_tasks, mgResponse, clock>>

\* the state of the MatterGen service
mgVars == <<request_status, mgPc, results_dir, background_tasks, mgResponse, clock>>

NoRequest == [model |-> "", messages |-> <<>>]

NoRoute == Tok("", "")

\* route_reply before the route model has answered
NoReply == <<Tok("no reply yet", "")>>

InitRequests(active) ==
  /\ handleAllToolErrors = "unseen"
  /\ running = 0
  /\ pc = [r \in Requests |-> IF r \in active THEN "pending" ELSE "absent"]
  /\ request = [r \in Requests |-> NoRequest]
  /\ route_input = [r \in Requests |-> <<>>]
  /\ route_reply = [r \in Requests |-> NoReply]
  /\ route = [r \in Requests |-> NoRoute]
  /\ tools = [r \in Requests |-> <<>>]
  /\ messages = [r \in Requests |-> <<>>]
  /\ calls = [r \in Requests |-> <<>>]
  /\ step = [r \in Requests |-> 0]
  /\ response = [r \in Requests |-> NoResponse]
  /\ classifierCalls = [r \in Requests |-> 0]
  /\ agentCalls = [r \in Requests |-> 0]
  /\ adapterCalls = [r \in Requests |-> <<>>]
  /\ registry = tool_map

(***************************************************************************)
(* src/services/mattergen/api/main.py: the status table and the state of   *)
(* the /generate handlers.  A request id (a fresh uuid4) is the number of  *)
(* the request.                                                            *)
(***************************************************************************)
GenerateRequests == 1..MaxGenerate

\* src/services/mattergen/api/main.py:50
MAX_STATUS_AGE == 24 * 60 * 60

\* seconds by which one step of the clock advances time.time()
TickSeconds == 12 * 60 * 60

\* end_time of an entry that has no such key yet
NoTime == -1

StatusEntry(status, start_time, end_time) ==
  [status |-> status, start_time |-> start_time, end_time |-> end_time]

\* request_status = {}
EmptyTable == [id \in {} |-> StatusEntry("", NoTime, NoTime)]

MatterGenInit ==
  /\ request_status = EmptyTable
  /\ mgPc = [g \in GenerateRequests |-> "idle"]
  /\ results_dir = [g \in GenerateRequests |-> "none"]
  /\ background_tasks = {}
  /\ mgResponse = [g \in GenerateRequests |-> 0]
  /\ clock = 0

Init == InitRequests({1}) /\ MatterGenInit

(***************************************************************************)
(* src/api/main.py:70-92: the handler up to the call of the route model.   *)
(***************************************************************************)
\* variant: the allow-list check is missing
ModelAllowedAny(model) == TRUE

ModelAllowed(model) == model \in AVAILABLE_MODELS

\* variant: the route of an identical earlier request is reused instead of calling the
\* route classifier
AcceptMemoized(r, model, conversation) ==
  /\ running = 0
  /\ pc[r] = "pending"
  /\ request' = [request EXCEPT ![r] = [model |-> model, messages |-> conversation]]
  /\ IF ~ModelAllowed(model)
     THEN /\ response' = [response EXCEPT ![r] = ErrorResponse(404, "model not found")]
          /\ pc' = [pc EXCEPT ![r] = "done"]
          /\ UNCHANGED <<running, route_input, classifierCalls, route_reply, route, tools,
                         messages, step, agentCalls>>
     ELSE IF \E q \in Requests \ {r} : request[q] = request'[r] /\ agentCalls[q] > 0
     THEN LET q == CHOOSE q \in Requests \ {r} : request[q] = request'[r] /\ agentCalls[q] > 0
          IN  /\ route_input' = [route_input EXCEPT ![r] = RouteInput(conversation)]
              /\ route_reply' = [route_reply EXCEPT ![r] = route_reply[q]]
              /\ route' = [route EXCEPT ![r] = route[q]]
              /\ tools' = [tools EXCEPT ![r] = tools[q]]
              /\ messages' = [messages EXCEPT ![r] = AgentInput(conversation)]
              /\ step' = [step EXCEPT ![r] = 1]
              /\ agentCalls' = [agentCalls EXCEPT ![r] = @ + 1]
              /\ pc' = [pc EXCEPT ![r] = "agent_call"]
              /\ running' = r
              /\ UNCHANGED <<response, classifierCalls>>
     ELSE /\ route_input' = [route_input EXCEPT ![r] = RouteInput(conversation)]
          /\ classifierCalls' = [classifierCalls EXCEPT ![r] = @ + 1]
          /\ pc' = [pc EXCEPT ![r] = "route_call"]
          /\ running' = r
          /\ UNCHANGED <<response, route_reply, route, tools, messages, step, agentCalls>>
  /\ UNCHANGED <<handleAllToolErrors, calls, adapterCalls>>
  /\ UNCHANGED <<registry, mgVars>>

Accept(r, model, conversation) ==
  /\ running = 0
  /\ pc[r] = "pending"
  /\ request' = [request EXCEPT ![r] = [model |-> model, messages |-> conversation]]
  /\ IF ~ModelAllowed(model)
     THEN /\ response' = [response EXCEPT ![r] = ErrorResponse(404, "model not found")]
          /\ pc' = [pc EXCEPT ![r] = "done"]
          /\ UNCHANGED <<running, route_input, classifierCalls>>
     ELSE /\ route_input' = [route_input EXCEPT ![r] = RouteInput(conversation)]
          /\ classifierCalls' = [classifierCalls EXCEPT ![r] = @ + 1]
          /\ pc' = [pc EXCEPT ![r] = "route_call"]
          /\ running' = r
          /\ UNCHANGED response
  /\ UNCHANGED <<handleAllToolErrors, route_reply, route, tools, messages, calls, step,
                 agentCalls, adapterCalls>>
  /\ UNCHANGED <<registry, mgVars>>

\* the request ends with an exception that leaves the handler
Fail(r, error) ==
  /\ response' = [response EXCEPT ![r] = ErrorResponse(500, error)]
  /\ pc' = [pc EXCEPT ![r] = "done"]
  /\ running' = 0

\* model.invoke(route_input) raises (the route model's endpoint fails)
ClassifierFails(r) ==
  /\ running = r
  /\ pc[r] = "route_call"
  /\ Fail(r, "route model error")
  /\ UNCHANGED <<handleAllToolErrors, request, route_input, route_reply, route, tools,
                 messages, calls, step, classifierCalls, agentCalls, adapterCalls>>
  /\ UNCHANGED <<registry, mgVars>>

(***************************************************************************)
(* src/api/main.py:93-112: from the classifier's reply to the first call   *)
(* of the agent model.                                                     *)
(***************************************************************************)
StripThink(content) == Replace(content, EmptyThinkLiteral)

ClassifierReturn(r, reply) ==
  /\ running = r
  /\ pc[r] = "route_call"
  /\ route_reply' = [route_reply EXCEPT ![r] = reply]
  /\ LET content == StripThink(reply)
     IN  IF ~JsonParses(content)
         THEN /\ Fail(r, "JSONDecodeError")
              /\ UNCHANGED <<route, tools, messages, step, agentCalls, registry>>
         ELSE LET parsed == JsonLoads(content)
              IN  /\ route' = [route EXCEPT ![r] = parsed]
                  /\ IF ~RouteIsDict(parsed)
                     THEN /\ Fail(r, "AttributeError")
                          /\ UNCHANGED <<tools, messages, step, agentCalls, registry>>
                     ELSE IF ~IntentHashable(RouteGetIntent(parsed))
                     THEN /\ Fail(r, "TypeError")
                          /\ UNCHANGED <<tools, messages, step, agentCalls, registry>>
                     ELSE /\ tools' = [tools EXCEPT ![r] = BindTools(RouteGetIntent(parsed))]
                          /\ registry' = RegistryAfterLookup(registry, RouteGetIntent(parsed))
                          /\ messages' = [messages EXCEPT ![r] = AgentInput(request[r].messages)]
                          /\ step' = [step EXCEPT ![r] = 1]
                          /\ agentCalls' = [agentCalls EXCEPT ![r] = @ + 1]
                          /\ pc' = [pc EXCEPT ![r] = "agent_call"]
                          /\ UNCHANGED <<running, response>>
  /\ UNCHANGED <<handleAllToolErrors, request, route_input, calls, classifierCalls,
                 adapterCalls>>
  /\ UNCHANGED mgVars


(***************************************************************************)
(* src/api/main.py:110-139: agent.invoke, the agent graph of               *)
(* create_react_agent, and the aggregation once the graph has ended.       *)
(***************************************************************************)
\* agent_model's endpoint fails: the exception leaves agent.invoke and the handler
AgentModelFails(r) ==
  /\ running = r
  /\ pc[r] = "agent_call"
  /\ Fail(r, "agent model error")
  /\ UNCHANGED <<handleAllToolErrors, request, route_input, route_reply, route, tools,
                 messages, calls, step, classifierCalls, agentCalls, adapterCalls>>
  /\ UNCHANGED <<registry, mgVars>>

\* the graph has ended with these messages: lines 113-139
Respond(r, msgs) ==
  /\ messages' = [messages EXCEPT ![r] = msgs]
  /\ response' = [response EXCEPT ![r] = ChatCompletionResponse(request[r].model, msgs)]
  /\ pc' = [pc EXCEPT ![r] = "done"]
  /\ running' = 0

\* the graph goes from the tool node to the agent node: the next call of the agent model
NextAgentCall(r, msgs, stepNo) ==
  /\ messages' = [messages EXCEPT ![r] = msgs]
  /\ step' = [step EXCEPT ![r] = stepNo]
  /\ agentCalls' = [agentCalls EXCEPT ![r] = @ + 1]
  /\ pc' = [pc EXCEPT ![r] = "agent_call"]

AgentModelReturn(r, variant, tool_calls) ==
  /\ running = r
  /\ pc[r] = "agent_call"
  /\ LET ai    == GraphMessage("ai", variant.content, variant.usage, tool_calls, "")
         sorry == GraphMessage("ai", SorryContent, ZeroUsage, <<>>, "")
     IN  IF AreMoreStepsNeeded(step[r], tool_calls)
         THEN /\ Respond(r, Append(messages[r], sorry))
              /\ UNCHANGED <<calls, step, agentCalls, adapterCalls>>
         ELSE IF tools[r] = <<>> \/ tool_calls = <<>>
         THEN \* no tool node in the graph, or nothing to route to it
              /\ Respond(r, Append(messages[r], ai))
              /\ UNCHANGED <<calls, step, agentCalls, adapterCalls>>
         ELSE LET cs == StartCalls(tools[r], tool_calls)
              IN  /\ calls' = [calls EXCEPT ![r] = cs]
                  /\ adapterCalls' = [adapterCalls EXCEPT ![r] = @ \o InvokedBy(cs)]
                  /\ IF InFlight(cs) = {}
                     THEN NextAgentCall(r, Append(messages[r], ai) \o Observations(cs), step[r] + 2)
                     ELSE /\ messages' = [messages EXCEPT ![r] = Append(@, ai)]
                          /\ step' = [step EXCEPT ![r] = @ + 1]
                          /\ pc' = [pc EXCEPT ![r] = "backend"]
                          /\ UNCHANGED agentCalls
                  /\ UNCHANGED <<running, response>>
  /\ UNCHANGED <<handleAllToolErrors, request, route_input, route_reply, route, tools,
                 classifierCalls>>
  /\ UNCHANGED <<registry, mgVars>>

\* the network call of tool call i ends
BackendReturn(r, i, outcome) ==
  /\ running = r
  /\ pc[r] = "backend"
  /\ i \in InFlight(calls[r])
  /\ outcome = "timeout" => HasTimeout(calls[r][i].name)
  /\ LET cs == [calls[r] EXCEPT ![i] =
                  CallEntry(@.name, "returned", CallAdapter(@.name, outcome))]
     IN  /\ calls' = [calls EXCEPT ![r] = cs]
         /\ IF Raised(cs[i]) /\ handleAllToolErrors = "unseen"
            THEN handleAllToolErrors' \in {"yes", "no"}
            ELSE UNCHANGED handleAllToolErrors
         /\ IF ~RoundOver(cs)
            THEN UNCHANGED <<running, pc, messages, step, response, agentCalls>>
            ELSE IF \E j \in 1..Len(cs) : Unhandled(handleAllToolErrors', cs[j])
            THEN /\ Fail(r, "tool exception")
                 /\ UNCHANGED <<messages, step, agentCalls>>
            ELSE /\ NextAgentCall(r, messages[r] \o Observations(cs), step[r] + 1)
                 /\ UNCHANGED <<running, response>>
  /\ UNCHANGED <<request, route_input, route_reply, route, tools,
                 classifierCalls, adapterCalls>>
  /\ UNCHANGED <<registry, mgVars>>

\* the service of tool call i never answers and the call has no timeout
BackendSilent(r, i) ==
  /\ running = r
  /\ pc[r] = "backend"
  /\ i \in InFlight(calls[r])
  /\ ~HasTimeout(calls[r][i].name)
  /\ calls' = [calls EXCEPT ![r][i].state = "hung"]
  /\ UNCHANGED <<handleAllToolErrors, running, pc, request, route_input, route_reply, route,
                 tools, messages, step, response, classifierCalls, agentCalls, adapterCalls>>
  /\ UNCHANGED <<registry, mgVars>>

(***************************************************************************)
(* The specification.                                                      *)
(***************************************************************************)
Next ==
  \/ \E r \in Requests, m \in ModelIds, c \in Conversations : Accept(r, m, c)
  \/ \E r \in Requests : ClassifierFails(r)
  \/ \E r \in Requests, reply \in ClassifierReplies : ClassifierReturn(r, reply)
  \/ \E r \in Requests : AgentModelFails(r)
  \/ \E r \in Requests, v \in AIVariants :
       \E tcs \in SeqsUpTo(ToolCallChoices(tools[r]),
                            MaxToolCalls - ToolCallsRequested(messages[r])) :
         AgentModelReturn(r, v, tcs)
  \/ \E r \in Requests, i \in 1..MaxToolCalls, o \in NetOutcomes : BackendReturn(r, i, o)
  \/ \E r \in Requests, i \in 1..MaxToolCalls : BackendSilent(r, i)

Spec == Init /\ [][Next]_vars


(***************************************************************************)
(* Properties.                                                             *)
(***************************************************************************)
Accepted(r) == pc[r] \notin {"absent", "pending"}

ClientError(status) == status \in 400..499

ServerError(status) == status \in 500..599

\* C1: a request whose model id is not in the allow-list gets a client error, and
\* for it neither the route classifier nor the agent model nor any adapter is invoked.
C1_UnknownModelRejected ==
  \A r \in Requests :
    (Accepted(r) /\ request[r].model \notin AVAILABLE_MODELS) =>
      /\ pc[r] = "done"
      /\ ClientError(response[r].status)
      /\ classifierCalls[r] = 0
      /\ agentCalls[r] = 0
      /\ adapterCalls[r] = <<>>

C1_Witness ==
  \E r \in Requests :
    pc[r] = "done" /\ request[r].model = "gpt-4" /\ response[r].status = 404

\* a text that is one JSON document, with nothing but newlines around it
WellFormedJson(text) ==
  \E i \in 1..Len(text) :
    /\ text[i].t \in JsonDocTokens
    /\ \A j \in 1..Len(text) : j # i => text[j] = NL

\* the classifier's reply with the empty reasoning-trace wrapper removed
Unwrapped(r) == Replace(route_reply[r], EmptyThinkLiteral)

\* C2: when the classifier's reply, after the empty reasoning-trace wrapper is stripped,
\* is not valid structured data, the request fails with a server error at once: the
\* classifier is not called again, no intent is defaulted, no tool is bound, and neither
\* the agent model nor an adapter is invoked.
C2_ParseErrorIsFatal ==
  \A r \in Requests :
    (route_reply[r] # NoReply /\ ~WellFormedJson(Unwrapped(r))) =>
      /\ pc[r] = "done"
      /\ ServerError(response[r].status)
      /\ response[r].error = "JSONDecodeError"
      /\ classifierCalls[r] = 1
      /\ route[r] = NoRoute
      /\ tools[r] = <<>>
      /\ agentCalls[r] = 0
      /\ adapterCalls[r] = <<>>

C2_Witness ==
  \E r \in Requests :
    /\ pc[r] = "done"
    /\ route_reply[r] = EmptyThinkLiteral \o <<Prose>>
    /\ response[r].status = 500

\* the adapter the Tool Registry holds for the classified intent of r, if any
RegisteredAdapter(r) ==
  IF route[r].t = "{intent:L}" /\ route[r].v \in DOMAIN tool_map /\ tool_map[route[r].v] # None
  THEN {tool_map[route[r].v]}
  ELSE {}

Elements(seq) == {seq[i] : i \in 1..Len(seq)}

C3_AtMostTheRegisteredTool ==
  \A r \in Requests :
    /\ Len(tools[r]) <= 1
    /\ Elements(tools[r]) \subseteq RegisteredAdapter(r)
    /\ Elements(adapterCalls[r]) \subseteq Elements(tools[r])

C3_ToolsFixedInLoop ==
  \A r \in Requests : pc[r] \in {"agent_call", "backend"} => tools'[r] = tools[r]

\* C3: at every moment at most one tool is bound to a request's agent; a bound tool is
\* the adapter the Tool Registry holds for the classified intent; the binding does not
\* change while the agent loop runs; and only a bound adapter is ever invoked.
C3_SingleToolBinding == [](C3_AtMostTheRegisteredTool) /\ [][C3_ToolsFixedInLoop]_vars

C3_Witness ==
  \E r \in Requests :
    /\ pc[r] = "done"
    /\ tools[r] = <<"spectrum_predict">>
    /\ Len(adapterCalls[r]) >= 1
    /\ response[r].status = 200

\* the classified intent of r is a label without a backend: not in the registry, or
\* registered with the no-tool sentinel
NoBackendIntent(r) ==
  /\ route[r].t = "{intent:L}"
  /\ route[r].v \notin DOMAIN tool_map \/ tool_map[route[r].v] = None

WellFormedCompletion(resp) ==
  /\ resp.status = 200
  /\ resp.object = "chat.completion"
  /\ Len(resp.choices) = 1

RECURSIVE FittingCalls(_, _)
FittingCalls(tcs, bound) ==
  IF tcs = <<>> THEN 0
  ELSE (IF Head(tcs).name \in Elements(bound) /\ SchemaAccepts(Head(tcs).name, Head(tcs).args)
        THEN 1 ELSE 0)
         + FittingCalls(Tail(tcs), bound)

RECURSIVE FittingCallsIn(_, _)
FittingCallsIn(msgs, bound) ==
  IF msgs = <<>> THEN 0
  ELSE FittingCalls(Head(msgs).tool_calls, bound) + FittingCallsIn(Tail(msgs), bound)

C5_OncePerFittingCall ==
  \A r \in Requests :
    /\ Elements(adapterCalls[r]) \subseteq Elements(tools[r])
    /\ Len(adapterCalls[r]) = FittingCallsIn(messages[r], tools[r])

C5_NoCallOnReturn ==
  \A r \in Requests : pc[r] = "backend" => adapterCalls'[r] = adapterCalls[r]

FoldScenario(r) ==
  /\ request[r].messages = << Message("user", <<"fold this sequence: MKV...">>) >>
  /\ route_reply[r] = <<JsonIntent("AlphaFold2")>>

FailedCall(entry) == entry.state = "returned" /\ entry.result # Return("payload")

\* the observations by which the loop learns of a failed backend call
FailureObservations == { <<"None">>, <<"error_dict">>, <<"Error: ", "ValueError">> }

\* some backend call of the request has failed
BackendFailedIn(r) ==
  \/ \E i \in 1..Len(calls[r]) : FailedCall(calls[r][i])
  \/ \E k \in 1..Len(messages[r]) :
       messages[r][k].type = "tool" /\ messages[r][k].content \in FailureObservations

\* the loop was ended by the step bound
StepBoundHit(r) ==
  messages[r] # <<>> /\ messages[r][Len(messages[r])].content = SorryContent

RoundObservedAt(r, first) ==
  /\ first >= 1
  /\ first + Len(calls[r]) - 1 <= Len(messages[r])
  /\ \A i \in 1..Len(calls[r]) :
       LET m == messages[r][first + i - 1]
       IN  /\ m.type = "tool"
           /\ FailedCall(calls[r][i]) => (m.content # <<"payload">> /\ m.content # <<>>)

C8_EveryCallHasTimeout ==
  \A r \in Requests :
    \A i \in 1..Len(calls[r]) :
      /\ calls[r][i].state = "inflight" => TimeoutOf(calls[r][i].name) > 0
      /\ calls[r][i].state # "hung"

UnboundCalls(r, k) ==
  {j \in 1..Len(messages[r][k].tool_calls) :
     messages[r][k].tool_calls[j].name \notin Elements(tools[r])}

\* the replies of r whose tool round, if any, is over
SettledReplies(r) ==
  IF pc[r] \in {"agent_call", "done"} /\ response[r].error # "tool exception"
  THEN {k \in 1..Len(messages[r]) : messages[r][k].type = "ai"}
  ELSE {}

ErrorObservationAt(r, k) ==
  /\ k <= Len(messages[r])
  /\ messages[r][k].type = "tool"
  /\ messages[r][k].status = "error"

\* C10 as stated: a request of the agent model for a tool that is not bound (also when
\* no tool is bound) invokes no adapter and is reported back as a failed observation.
C10_UnboundCallObserved ==
  \A r \in Requests :
    /\ Elements(adapterCalls[r]) \subseteq Elements(tools[r])
    /\ \A k \in SettledReplies(r) :
         \A j \in UnboundCalls(r, k) : ErrorObservationAt(r, k + j)

\* C10 amended: a request of the agent model for a tool that is not bound never
\* invokes an adapter.  When one tool is bound, the request is reported back into the
\* loop as an error observation and the loop goes on; when no tool is bound, the graph
\* has no tool node: the request is ignored, the reply that carries it ends the loop
\* and is folded into a normal response.  Neither case fails the request.
C10_UnboundCallHarmless ==
  \A r \in Requests :
    /\ Elements(adapterCalls[r]) \subseteq Elements(tools[r])
    /\ \A k \in SettledReplies(r) :
         UnboundCalls(r, k) # {} =>
           IF tools[r] = <<>>
           THEN /\ k = Len(messages[r])
                /\ pc[r] = "done"
                /\ WellFormedCompletion(response[r])
           ELSE \A j \in UnboundCalls(r, k) : ErrorObservationAt(r, k + j)

C10_Witness ==
  \E r \in Requests :
    \E k \in 1..Len(messages[r]) :
      /\ tools[r] = <<"matter_gen_function">>
      /\ messages[r][k].type = "ai"
      /\ messages[r][k].tool_calls = <<ToolCall("execute", ToolArgs(20, 15, TRUE))>>
      /\ ErrorObservationAt(r, k + 1)
      /\ adapterCalls[r] = <<>>
      /\ pc[r] = "done"
      /\ response[r].status = 200

\* an argument set outside what the tool declares for it: a field missing or of the
\* wrong type, an ESM3 sequence not of 1..300 characters or num_steps not in 1..50,
\* an Evo2 sequence not of 1..500 characters or num_tokens not in 1..300
ViolatesDeclaredSchema(tc) ==
  \/ ~tc.args.complete
  \/ /\ tc.name = "execute"
     /\ tc.args.sequence_len \notin 1..300 \/ tc.args.num \notin 1..50
  \/ /\ tc.name = "dna_generate"
     /\ tc.args.sequence_len \notin 1..500 \/ tc.args.num \notin 1..300

\* the tool calls of a message list that name a tool of the list and keep to its schema
RECURSIVE SchemaKeepingCalls(_, _)
SchemaKeepingCalls(msgs, bound) ==
  IF msgs = <<>> THEN 0
  ELSE Cardinality({j \in 1..Len(Head(msgs).tool_calls) :
                      /\ Head(msgs).tool_calls[j].name \in Elements(bound)
                      /\ ~ViolatesDeclaredSchema(Head(msgs).tool_calls[j])})
         + SchemaKeepingCalls(Tail(msgs), bound)

\* C11: a backend network call is made only with an argument set that satisfies the
\* bound adapter's declared argument schema: for a tool call whose arguments violate it
\* no network call is made, the validation failure comes back into the loop as an error
\* observation, and the request is not aborted by it.
C11_ValidatedBeforeNetworkCall ==
  \A r \in Requests :
    /\ pc[r] = "backend" =>
         LET tcs == messages[r][Len(messages[r])].tool_calls
         IN  /\ Len(calls[r]) = Len(tcs)
             /\ \A i \in 1..Len(tcs) :
                  ViolatesDeclaredSchema(tcs[i]) =>
                    calls[r][i].state \in {"invalid_args", "invalid_name"}
    /\ Len(adapterCalls[r]) = SchemaKeepingCalls(messages[r], tools[r])
    /\ \A k \in SettledReplies(r) :
         tools[r] # <<>> =>
           \A j \in 1..Len(messages[r][k].tool_calls) :
             ViolatesDeclaredSchema(messages[r][k].tool_calls[j]) =>
               /\ ErrorObservationAt(r, k + j)
               /\ messages[r][k + j].content = <<"Error: ValidationError">>
    /\ response[r].error = "tool exception" =>
         \E i \in 1..Len(calls[r]) : Raised(calls[r][i])

\* the agent model has asked ESM3 for a sequence of 301 characters: the request has gone
\* on and ended with an answer, and the ESM3 service was never called
C11_Witness ==
  \E r \in Requests :
    \E k \in 1..Len(messages[r]) :
      /\ tools[r] = <<"execute">>
      /\ messages[r][k].type = "ai"
      /\ messages[r][k].tool_calls = <<ToolCall("execute", ToolArgs(301, 15, TRUE))>>
      /\ ErrorObservationAt(r, k + 1)
      /\ adapterCalls[r] = <<>>
      /\ pc[r] = "done"
      /\ response[r].status = 200

(***************************************************************************)
(* The handler under fair scheduling: a step that can be taken is taken in *)
(* the end (the event loop runs the handler, a network call that is not    *)
(* left waiting comes back).                                               *)
(***************************************************************************)
FairSpec == Spec /\ WF_vars(Next)

\* a response that was built by the aggregator after the step bound ended the loop
C12_StepBoundYieldsCompletion ==
  \A r \in Requests :
    (pc[r] = "done" /\ StepBoundHit(r)) =>
      /\ WellFormedCompletion(response[r])
      /\ response[r].choices[1].message.content =
           Concat(ResultContent(messages[r]))

\* C12: the agent loop of every request terminates (with a reply that asks for no tool,
\* or at the step bound), and a loop ended by the step bound still yields a completed
\* response built from the messages produced so far.
C12_LoopTerminates ==
  /\ \A r \in Requests : (pc[r] = "agent_call") ~> (pc[r] = "done")
  /\ [](C12_StepBoundYieldsCompletion)

\* C13: in every returned response, finish_reason is "length" if and only if the agent
\* loop was ended by its step bound, and "stop" in every other case.
C13_LengthIffStepBound ==
  \A r \in Requests :
    (pc[r] = "done" /\ response[r].status = 200) =>
      /\ response[r].choices[1].finish_reason = "length" <=> StepBoundHit(r)
      /\ ~StepBoundHit(r) => response[r].choices[1].finish_reason = "stop"

UsageFields == {"prompt_tokens", "completion_tokens", "total_tokens"}

\* the sum of one reported token count over the first k messages of a list
RECURSIVE ReportedSum(_, _, _)
ReportedSum(msgs, field, k) ==
  IF k = 0 THEN 0 ELSE ReportedSum(msgs, field, k - 1) + msgs[k].usage[field]

Returned(r) == pc[r] = "done" /\ response[r].status = 200

\* C14: in the response of a valid request each of usage.prompt_tokens,
\* usage.completion_tokens and usage.total_tokens is the sum, from zero, of the
\* corresponding token count reported by every message of the agent loop's output.
C14_UsageIsSumOfReported ==
  \A r \in Requests :
    Returned(r) =>
      \A f \in UsageFields :
        response[r].usage[f] = ReportedSum(messages[r], f, Len(messages[r]))

\* two replies that report tokens, with a tool observation between them
C14_Witness ==
  \E r \in Requests :
    /\ Returned(r)
    /\ response[r].usage = Usage(4, 2, 6)
    /\ \E k \in 1..Len(messages[r]) : messages[r][k].type = "tool"

\* the three counters after the aggregator has folded the first k messages
FoldedUsage(r, k) == TokenUsage(SubSeq(messages[r], 1, k))

\* C15: while the aggregator folds the loop's messages in order, no usage counter
\* after message k+1 is smaller than it was after message k.
C15_CountersNeverDecrease ==
  \A r \in Requests :
    Returned(r) =>
      /\ FoldedUsage(r, 0) = ZeroUsage
      /\ FoldedUsage(r, Len(messages[r])) = response[r].usage
      /\ \A k \in 0..(Len(messages[r]) - 1) :
           \A f \in UsageFields : FoldedUsage(r, k + 1)[f] >= FoldedUsage(r, k)[f]

\* a fold in which a counter grows at one message and stays at the next
C15_Witness ==
  \E r \in Requests :
    /\ Returned(r)
    /\ \E k \in 1..(Len(messages[r]) - 2) :
         /\ FoldedUsage(r, k).total_tokens > FoldedUsage(r, k - 1).total_tokens
         /\ FoldedUsage(r, k + 1).total_tokens = FoldedUsage(r, k).total_tokens
         /\ FoldedUsage(r, k + 2).total_tokens > FoldedUsage(r, k + 1).total_tokens

\* the contents of the assistant messages among the first k messages, joined in order
RECURSIVE AssistantText(_, _)
AssistantText(msgs, k) ==
  IF k = 0 THEN <<>>
  ELSE AssistantText(msgs, k - 1) \o (IF msgs[k].type = "ai" THEN msgs[k].content ELSE <<>>)

\* C16: the final message content is the contents of all assistant messages of the
\* loop's output, joined in loop order with no separator, and holds no content of a
\* user, system or tool message.
C16_ContentIsAssistantText ==
  \A r \in Requests :
    Returned(r) =>
      LET content == response[r].choices[1].message.content
      IN  /\ content = AssistantText(messages[r], Len(messages[r]))
          /\ \A k \in 1..Len(messages[r]) :
               messages[r][k].type \in {"human", "system", "tool"} =>
                 Elements(messages[r][k].content) \cap Elements(content) = {}

\* the conversation with a system message and an earlier assistant turn, answered
\* after a tool observation
C16_Witness ==
  \E r \in Requests :
    /\ Returned(r)
    /\ response[r].choices[1].message.content = <<"a0", "a", "a">>
    /\ \E k \in 1..Len(messages[r]) :
         messages[r][k].type = "tool" /\ messages[r][k].content = <<"payload">>
    /\ messages[r][1].type = "system"

\* the assistant messages of a list
AssistantMessages(msgs) == {k \in 1..Len(msgs) : msgs[k].type = "ai"}

\* C17: every response returned for an accepted request has object "chat.completion",
\* the request's model id, and exactly one choice: index 0, an assistant message and a
\* finish reason, however many messages the agent loop produced.
C17_OneChoiceEnvelope ==
  \A r \in Requests :
    Returned(r) =>
      /\ response[r].object = "chat.completion"
      /\ response[r].model = request[r].model
      /\ Len(response[r].choices) = 1
      /\ response[r].choices[1].index = 0
      /\ response[r].choices[1].message.role = "assistant"
      /\ response[r].choices[1].finish_reason \in {"stop", "length"}

\* a loop of three replies answered with one choice
C17_Witness ==
  \E r \in Requests :
    /\ Returned(r)
    /\ Cardinality(AssistantMessages(messages[r])) = 3
    /\ Len(response[r].choices) = 1
    /\ response[r].model = "S1-Base"

\* the network round trips of request r that are in progress
StepsInProgress(r) ==
  CASE pc[r] = "route_call" -> 1
    [] pc[r] = "agent_call" -> 1
    [] pc[r] = "backend"    -> Cardinality(InFlight(calls[r]) \cup Hung(calls[r]))
    [] OTHER                -> 0

\* the classifier's reply of r has come back and has been parsed into a route
Classified(r) ==
  /\ classifierCalls[r] = 1
  /\ route_reply[r] # NoReply
  /\ route[r] # NoRoute
  /\ pc[r] \notin {"pending", "route_call"}

C18_PhasesInOrder ==
  \A r \in Requests :
    /\ (agentCalls[r] > 0 \/ adapterCalls[r] # <<>> \/ messages[r] # <<>>) => Classified(r)
    /\ pc[r] = "route_call" => (calls[r] = <<>> /\ response[r] = NoResponse)
    /\ pc[r] = "agent_call" =>
         /\ InFlight(calls[r]) \cup Hung(calls[r]) = {}
         /\ response[r] = NoResponse
    /\ pc[r] = "backend" =>
         /\ response[r] = NoResponse
         /\ messages[r][Len(messages[r])].type = "ai"
         /\ Len(calls[r]) = Len(messages[r][Len(messages[r])].tool_calls)
    /\ response[r].status = 200 =>
         /\ pc[r] = "done"
         /\ InFlight(calls[r]) \cup Hung(calls[r]) = {}
         /\ messages[r][Len(messages[r])].type = "ai"

ServingConversation == << Message("user", <<"fold this sequence: MKV...">>) >>

ServingReplies == { <<JsonIntent("EVO2")>>, <<JsonIntent("default")>>, <<Prose>> }

ServingVariant == [content |-> <<"a">>, usage |-> Usage(2, 1, 3)]

\* the agent model keeps to the tools it was given
ServingToolCalls(bound) == {tc \in ToolCallChoices(bound) : tc.name \in Elements(bound)}

ServingInit == InitRequests({1, 2}) /\ MatterGenInit

\* a step of the handler of request r
HandlerStep(r) ==
  \/ \E m \in ModelIds : Accept(r, m, ServingConversation)
  \/ ClassifierFails(r)
  \/ \E reply \in ServingReplies : ClassifierReturn(r, reply)
  \/ AgentModelFails(r)
  \/ \E tcs \in SeqsUpTo(ServingToolCalls(tools[r]),
                          MaxServingToolCalls - ToolCallsRequested(messages[r])) :
       AgentModelReturn(r, ServingVariant, tcs)
  \/ \E i \in 1..MaxServingToolCalls, o \in NetOutcomes : BackendReturn(r, i, o)
  \/ \E i \in 1..MaxServingToolCalls : BackendSilent(r, i)

ServingNext == \E r \in Requests : HandlerStep(r)

ServingSpec == ServingInit /\ [][ServingNext]_vars

\* request r waits for the answer to a network round trip
BlockedOnNetwork(r) == pc[r] \in {"route_call", "agent_call", "backend"}

\* request r has arrived or is being handled, and is not finished
InFlightRequest(r) == pc[r] \in {"pending", "route_call", "agent_call", "backend"}

\* C19: with several requests in flight, whenever request A waits for a network round
\* trip (classifier call, agent-model call or backend call), a step of every other
\* request B in flight is enabled.
C19_BlockedRequestLeavesOthersFree ==
  \A a \in Requests, b \in Requests :
    (a # b /\ BlockedOnNetwork(a) /\ InFlightRequest(b)) => ENABLED HandlerStep(b)

\* everything the handler keeps for request r
PerRequest(r) ==
  <<pc[r], request[r], route_input[r], route_reply[r], route[r], tools[r], messages[r],
    calls[r], step[r], response[r], classifierCalls[r], agentCalls[r], adapterCalls[r]>>

\* the handler of r has passed the allow-list check
Admitted(r) == Accepted(r) /\ request[r].model \in AVAILABLE_MODELS

C20_OwnPipeline ==
  \A r \in Requests :
    /\ Admitted(r) => classifierCalls[r] = 1
    /\ ~Admitted(r) => (classifierCalls[r] = 0 /\ agentCalls[r] = 0)
    /\ agentCalls[r] > 0 => (route[r] = JsonLoads(StripThink(route_reply[r])) /\ route_reply[r] # NoReply)
    /\ Len(adapterCalls[r]) = SchemaKeepingCalls(messages[r], tools[r])

C20_StepIsOfOneRequest ==
  \E r \in Requests : \A q \in Requests \ {r} : PerRequest(q)' = PerRequest(q)

apiVars ==
  <<handleAllToolErrors, running, pc, request, route_input, route_reply, route, tools,
    messages, calls, step, response, classifierCalls, agentCalls, adapterCalls, registry>>

\* request_status[request_id] = entry
TableWith(table, id, entry) ==
  [k \in DOMAIN table \cup {id} |-> IF k = id THEN entry ELSE table[k]]

\* variant: the update writes the end time only
UpdatedEndTimeOnly(table, id, status, now) ==
  IF id \in DOMAIN table
  THEN [table EXCEPT ![id] = StatusEntry(@.status, @.start_time, now)]
  ELSE table

\* lines 329-333 and 358-363: if request_id in request_status: ....update({...})
Updated(table, id, status, now) ==
  IF id \in DOMAIN table
  THEN [table EXCEPT ![id] = StatusEntry(status, @.start_time, now)]
  ELSE table

\* lines 241-259: up to the await; mkdtemp is what tempfile.mkdtemp does
GenerateMaterialsStart(g, mkdtemp) ==
  /\ mgPc[g] = "idle"
  /\ IF mkdtemp = "OSError"
     THEN \* lines 356-372: the entry was not made yet
          /\ request_status' = Updated(request_status, g, "failed", clock)
          /\ mgResponse' = [mgResponse EXCEPT ![g] = 500]
          /\ mgPc' = [mgPc EXCEPT ![g] = "returned"]
          /\ UNCHANGED results_dir
     ELSE /\ results_dir' = [results_dir EXCEPT ![g] = "exists"]
          /\ request_status' =
               IF g \notin DOMAIN request_status
               THEN TableWith(request_status, g, StatusEntry("running", clock, NoTime))
               ELSE request_status
          /\ mgPc' = [mgPc EXCEPT ![g] = "generating"]
          /\ UNCHANGED mgResponse
  /\ UNCHANGED <<background_tasks, clock>>
  /\ UNCHANGED apiVars

\* lines 259-372: from the end of the generation to the return; generation is what
\* generate_materials_directly left (output files, none, or an exception), upload is
\* what upload_file does
GenerateMaterialsResume(g, generation, upload) ==
  /\ mgPc[g] = "generating"
  /\ IF generation = "files" /\ upload = "ok"
     THEN /\ request_status' = Updated(request_status, g, "completed", clock)
          /\ background_tasks' = background_tasks \cup {g}
          /\ mgResponse' = [mgResponse EXCEPT ![g] = 200]
     ELSE /\ request_status' = Updated(request_status, g, "failed", clock)
          /\ mgResponse' = [mgResponse EXCEPT ![g] = 500]
          /\ UNCHANGED background_tasks
  /\ mgPc' = [mgPc EXCEPT ![g] = "returned"]
  /\ UNCHANGED <<results_dir, clock>>
  /\ UNCHANGED apiVars

\* lines 336-345: the background task runs once the response has been sent
SafeCleanup(g) ==
  /\ g \in background_tasks
  /\ mgPc[g] = "returned"
  /\ results_dir[g] = "exists"
  /\ results_dir' = [results_dir EXCEPT ![g] = "deleted"]
  /\ UNCHANGED <<request_status, mgPc, background_tasks, mgResponse, clock>>
  /\ UNCHANGED apiVars

\* time passes
Tick ==
  /\ clock < MaxTicks * TickSeconds
  /\ clock' = clock + TickSeconds
  /\ UNCHANGED <<request_status, mgPc, results_dir, background_tasks, mgResponse>>
  /\ UNCHANGED apiVars

MatterGenNext ==
  \/ \E g \in GenerateRequests, mkdtemp \in {"ok", "OSError"} :
       GenerateMaterialsStart(g, mkdtemp)
  \/ \E g \in GenerateRequests, generation \in {"files", "no_files", "error"},
        upload \in {"ok", "S3Error"} :
       GenerateMaterialsResume(g, generation, upload)
  \/ \E g \in GenerateRequests : SafeCleanup(g)
  \/ Tick

\* the MatterGen service alone: no chat request is under way
MatterGenServiceInit == InitRequests({}) /\ MatterGenInit

MatterGenSpec == MatterGenServiceInit /\ [][MatterGenNext]_vars

\* the service under fair scheduling: handlers and background tasks run, time passes
MatterGenFairSpec == MatterGenSpec /\ WF_vars(MatterGenNext)

\* what request r holds was made from its own request and its own classifier reply
C21_OwnState ==
  \A r \in Requests :
    /\ Elements(tools[r]) \subseteq RegisteredAdapter(r)
    /\ messages[r] # <<>> =>
         \A k \in 1..Len(request[r].messages) :
           messages[r][k].content = request[r].messages[k].content
    /\ Returned(r) =>
         response[r].usage.total_tokens =
           ReportedSum(messages[r], "total_tokens", Len(messages[r]))

\* a step that changes something of one request changes nothing of any other
C21_OthersUntouched ==
  \A r \in Requests :
    PerRequest(r)' # PerRequest(r) =>
      \A q \in Requests \ {r} : PerRequest(q)' = PerRequest(q)

\* C21: handling a request, on any path, leaves the Tool Registry as it was built at
\* startup, and the route decision, tool list, message list and usage counters of one
\* request are made from that request alone and are never modified by a step of
\* another request, under any interleaving.
C21_RegistryAndRequestFrame ==
  /\ [](registry = tool_map /\ C21_OwnState)
  /\ [][C21_OthersUntouched]_vars

\* one request has failed at parsing, the other has called its backend and was answered
C21_Witness ==
  /\ pc[1] = "done" /\ response[1].error = "JSONDecodeError"
  /\ pc[2] = "done" /\ response[2].status = 200
  /\ adapterCalls[2] # <<>>
  /\ registry = tool_map

\* the handler of r has built the classifier's input
RouteInputBuilt(r) == Admitted(r)

\* C22: the message list sent to the route classifier has the length and the order of
\* roles of the request's conversation; the content of each user message is the
\* instruction template applied to the original content, and the content of each
\* system or assistant message is the original content.
C22_RouteInputIsTemplatedConversation ==
  \A r \in Requests :
    RouteInputBuilt(r) =>
      /\ Len(route_input[r]) = Len(request[r].messages)
      /\ \A k \in 1..Len(route_input[r]) :
           LET original == request[r].messages[k]
               sent     == route_input[r][k]
           IN  /\ sent.role = original.role
               /\ original.role = "user" =>
                    sent.content = <<"TEMPLATE_HEAD">> \o original.content \o <<"TEMPLATE_TAIL">>
               /\ original.role \in {"system", "assistant"} =>
                    sent.content = original.content

\* the conversation with a system message and an earlier assistant turn was sent
C22_Witness ==
  \E r \in Requests :
    /\ pc[r] = "route_call"
    /\ Len(route_input[r]) = 4
    /\ route_input[r][1] = Message("system", <<"sys">>)
    /\ route_input[r][2] = Message("user", <<"TEMPLATE_HEAD", "q1", "TEMPLATE_TAIL">>)
    /\ route_input[r][3] = Message("assistant", <<"a0">>)

\* the position of the closing delimiter of an empty reasoning trace that opens the
\* reply: nothing but newlines inside the pair; 0 when the reply does not open with one
EmptyPairEnd(reply) ==
  IF /\ reply # <<>>
     /\ reply[1] = ThinkOpen
     /\ \E i \in 2..Len(reply) :
          reply[i] = ThinkClose /\ \A j \in 2..(i - 1) : reply[j] = NL
  THEN CHOOSE i \in 2..Len(reply) :
         reply[i] = ThinkClose /\ \A j \in 2..(i - 1) : reply[j] = NL
  ELSE 0

\* a valid structured decision preceded by an empty reasoning-trace delimiter pair
WrappedDecision(reply) ==
  /\ EmptyPairEnd(reply) > 0
  /\ WellFormedJson(Drop(reply, EmptyPairEnd(reply)))

\* the decision inside the wrapper
InnerDecision(reply) ==
  LET inner == Drop(reply, EmptyPairEnd(reply))
  IN  inner[CHOOSE i \in 1..Len(inner) : inner[i].t \in JsonDocTokens]

\* C23: whenever the classifier's reply is a valid structured decision preceded by an
\* empty reasoning-trace delimiter pair, in whatever whitespace layout, the wrapper is
\* stripped before parsing and the route decision is that of the reply without it.
C23_AnyEmptyWrapperStripped ==
  \A r \in Requests :
    (route_reply[r] # NoReply /\ WrappedDecision(route_reply[r])) =>
      /\ response[r].error # "JSONDecodeError"
      /\ route[r] = InnerDecision(route_reply[r])

\* C24: every request ends in a client error or in a successful chat completion whose
\* assistant message tells of any backend failure; no failure inside the pipeline
\* reaches the caller as an internal error.
C24_ClientErrorOrCompletion ==
  \A r \in Requests :
    pc[r] = "done" =>
      \/ ClientError(response[r].status)
      \/ /\ WellFormedCompletion(response[r])
         /\ BackendFailedIn(r) => response[r].choices[1].message.content # <<>>

\* a completed entry older than MAX_STATUS_AGE
Expired(g) ==
  /\ g \in DOMAIN request_status
  /\ request_status[g].status = "completed"
  /\ clock - request_status[g].end_time > MAX_STATUS_AGE

\* C25: the request_status table is cleaned: an entry of a completed request that is
\* older than MAX_STATUS_AGE is eventually removed from the table.
C25_ExpiredEntriesRemoved ==
  \A g \in GenerateRequests : Expired(g) ~> (g \notin DOMAIN request_status)

Terminal == {"completed", "failed"}

HasReturned(g) == mgPc[g] = "returned"

\* C26 (as stated): every /generate request that has returned has a status entry with
\* exactly one terminal status, "completed" iff the response is 200 and "failed" iff it
\* is 500, and none is left "running".
C26_EveryRequestHasTerminalEntry ==
  \A g \in GenerateRequests :
    HasReturned(g) =>
      /\ g \in DOMAIN request_status
      /\ request_status[g].status \in Terminal
      /\ request_status[g].status = "completed" <=> mgResponse[g] = 200
      /\ request_status[g].status = "failed" <=> mgResponse[g] = 500

C26_EntryFollowsHandler ==
  \A g \in GenerateRequests :
    /\ mgPc[g] = "idle" => g \notin DOMAIN request_status
    /\ mgPc[g] = "generating" =>
         /\ g \in DOMAIN request_status
         /\ request_status[g].status = "running"
         /\ request_status[g].end_time = NoTime
    /\ HasReturned(g) =>
         /\ mgResponse[g] \in {200, 500}
         /\ IF g \in DOMAIN request_status
            THEN /\ request_status[g].status \in Terminal
                 /\ request_status[g].end_time # NoTime
                 /\ request_status[g].status = "completed" <=> mgResponse[g] = 200
                 /\ request_status[g].status = "failed" <=> mgResponse[g] = 500
            ELSE /\ mgResponse[g] = 500
                 /\ results_dir[g] = "none"

C26_TerminalIsFinal ==
  \A g \in DOMAIN request_status :
    request_status[g].status \in Terminal =>
      /\ g \in DOMAIN request_status'
      /\ request_status'[g] = request_status[g]

\* C26 (amended): a request whose entry was created has it "running" during the
\* generation and in exactly one terminal status once the handler has returned,
\* "completed" iff the response is 200 and "failed" iff it is 500, and a terminal entry
\* never changes; a request that failed before its entry was created (no temporary
\* directory) returns 500 and has no entry at all.
C26_TerminalStatusWhenEntryExists ==
  [] C26_EntryFollowsHandler /\ [][C26_TerminalIsFinal]_vars

C26_Witness ==
  \E g, h \in GenerateRequests :
    /\ HasReturned(g) /\ g \in DOMAIN request_status
    /\ request_status[g].status = "completed" /\ mgResponse[g] = 200
    /\ HasReturned(h) /\ h \notin DOMAIN request_status /\ mgResponse[h] = 500

\* C27: every temporary results directory created by a /generate request is scheduled
\* for deletion before the handler returns, on the success path and on every failure
\* path.
C27_DirectoryCleanupScheduled ==
  \A g \in GenerateRequests :
    (HasReturned(g) /\ results_dir[g] # "none") => g \in background_tasks

\* the parsed decision is an object without the key 'intent', or with intent null
MissingIntent(r) == route[r] \in {JsonEmptyObject, JsonIntentNull}

NonEmptyTraceReply ==
  <<ThinkOpen, NL, Prose, NL, ThinkClose, NL, NL, JsonIntent("ESM3")>>

\* C29: when the classifier reply holds a non-empty reasoning trace inside the delimiter
\* pair followed by a valid decision, nothing is stripped and the request fails with the
\* routing parse error: no tool is bound and neither the agent model nor an adapter is
\* invoked.
C29_NonEmptyTraceFailsParse ==
  \A r \in Requests :
    route_reply[r] = NonEmptyTraceReply =>
      /\ StripThink(route_reply[r]) = route_reply[r]
      /\ pc[r] = "done"
      /\ response[r].status = 500
      /\ response[r].error = "JSONDecodeError"
      /\ route[r] = NoRoute
      /\ tools[r] = <<>>
      /\ messages[r] = <<>>
      /\ agentCalls[r] = 0
      /\ adapterCalls[r] = <<>>

C29_Witness ==
  \E r \in Requests :
    /\ route_reply[r] = NonEmptyTraceReply
    /\ classifierCalls[r] = 1
    /\ response[r].status = 500

\* the message type the graph gives a role of the request
TypeOfRole(role) ==
  CASE role = "user" -> "human" [] role = "system" -> "system" [] role = "assistant" -> "ai"

C30_AgentSeesOriginal ==
  \A r \in Requests :
    agentCalls[r] > 0 =>
      LET original == request[r].messages
      IN  /\ Len(messages[r]) >= Len(original)
          /\ \A k \in 1..Len(original) :
               /\ messages[r][k].type = TypeOfRole(original[k].role)
               /\ messages[r][k].content = original[k].content
               /\ \A j \in 1..Len(messages[r][k].content) :
                    messages[r][k].content[j] \notin {"TEMPLATE_HEAD", "TEMPLATE_TAIL"}
               /\ messages[r][k].tool_calls = <<>>
          \* whatever follows was produced by the loop itself
          /\ \A k \in (Len(original) + 1)..Len(messages[r]) :
               messages[r][k].type \in {"ai", "tool"}
          \* the classifier was given the templated copy, a different list
          /\ route_input[r] # original
          /\ \E k \in 1..Len(original) : route_input[r][k].content # messages[r][k].content

C30_RequestKept ==
  \A r \in Requests :
    pc[r] \notin {"pending", "absent"} => request'[r] = request[r]

\* C30: the conversation given to the agent loop is the request's original conversation,
\* message for message (order, roles, contents): neither the classification template nor
\* the classifier's reply is part of it, and no step after the request was accepted
\* (building the classifier input included) changes request.messages.
C30_AgentGetsOriginalConversation ==
  [] C30_AgentSeesOriginal /\ [][C30_RequestKept]_vars

C30_Witness ==
  \E r \in Requests :
    /\ agentCalls[r] > 0
    /\ Len(request[r].messages) = 4
    /\ route_input[r][2].content = <<"TEMPLATE_HEAD", "q1", "TEMPLATE_TAIL">>
    /\ messages[r][2].content = <<"q1">>
    /\ messages[r][2].type = "human"
    /\ Len(messages[r]) > 4

=============================================================================
